---- MODULE Spec2Model ----
(***************************************************************************)
(* kata-tennis (src/lib.rs): the score of one tennis game.                 *)
(*                                                                         *)
(* The specifications share the pure operators translated from lib.rs:     *)
(*   Spec       one call of score_game(points) on an input drawn in Init,  *)
(*              stepped at the statements of its body (lines 136-144);     *)
(*   FairSpec   Spec with weak fairness of Next, for termination;          *)
(*   SpecScore  Score::new / Score::add / Display for Score applied to a   *)
(*              count drawn from the whole u8 range;                       *)
(*   SpecSnap   a caller that keeps a GameScore and calls scored on it.    *)
(* A Rust panic (an unwrap of None or Err, an overflow in a build with     *)
(* overflow checks) is an outcome of kind "panic": the call never returns. *)
(***************************************************************************)
EXTENDS Integers, Sequences, FiniteSets, TLC

VARIABLES
    overflow_checks, \* build profile: TRUE = arithmetic overflow panics, FALSE = wraps
    points,          \* score_game: the argument `points: Vec<Point>`
    idx,             \* score_game: position of the `for point in points` iterator
    game,            \* score_game: the local `game`
    pc,              \* score_game: "start" | "loop" | "returned" | "panicked" ("idle" in SpecScore)
    outcome,         \* score_game: what the caller gets
    t_arg,           \* Score: the u8 handed to Score::new
    t_new,           \* Score: the Result of Score::new(t_arg)
    t_recv,          \* Score: the Score that add and Display are called on
    t_add,           \* Score: the Result of t_recv.add(point)
    t_shown,         \* Score: the outcome of format!("{}", t_recv)
    t_pc,            \* Score: "init" | "have" | "failed" ("idle" in Spec)
    snap,            \* GameScore: a GameScore value that the caller keeps
    snap_was,        \* GameScore: what `snap` held when it was bound (history)
    res_a,           \* GameScore: the point and result of one snap.scored(point)
    res_b,           \* GameScore: the point and result of another snap.scored(point)
    s_pc             \* GameScore: "init" | "held" ("idle" elsewhere)

vars == <<overflow_checks, points, idx, game, pc, outcome,
          t_arg, t_new, t_recv, t_add, t_shown, t_pc,
          snap, snap_was, res_a, res_b, s_pc>>

gameVars == <<points, idx, game, pc, outcome>>
scoreVars == <<t_arg, t_new, t_recv, t_add, t_shown, t_pc>>
snapVars == <<snap, snap_was, res_a, res_b, s_pc>>

----------------------------------------------------------------------------
(* Bounds and program constants *)

\* Longest input of score_game that Init draws (9 = a full 4-4 game and one more).
MaxPoints == 9

\* Largest value of the count type, `struct Score(u8)`.
U8Max == 255

----------------------------------------------------------------------------
(* Values *)

PLAYER_1_ID == FALSE
PLAYER_2_ID == TRUE

\* struct Player { id: bool }; Eq and Hash are derived, so a &Player key is its id.
Player == [id : BOOLEAN]

player_1 == [id |-> PLAYER_1_ID]
player_2 == [id |-> PLAYER_2_ID]

\* Point::new(player)
PointNew(player) == [player |-> player]

Point == {PointNew(p) : p \in Player}

\* Option and Result, and the two ways a call ends.
None == [some |-> FALSE]
Some(x) == [some |-> TRUE, val |-> x]
Ok(x) == [ok |-> TRUE, val |-> x]
Err(e) == [ok |-> FALSE, err |-> e]
Value(x) == [kind |-> "value", val |-> x]
Panic(m) == [kind |-> "panic", msg |-> m]
NoneYet == [kind |-> "none"]

UnwrapNoneMsg == "called Option::unwrap() on a None value"
UnwrapErrMsg(e) == "called Result::unwrap() on an Err value: " \o e
OverflowMsg == "attempt to add with overflow"

----------------------------------------------------------------------------
(* Formatting *)

Digit(d) ==
    CASE d = 0 -> "0" [] d = 1 -> "1" [] d = 2 -> "2" [] d = 3 -> "3"
      [] d = 4 -> "4" [] d = 5 -> "5" [] d = 6 -> "6" [] d = 7 -> "7"
      [] d = 8 -> "8" [] d = 9 -> "9"

RECURSIVE FormatU8(_)
\* format!("{}", n) for a u8: its decimal digits, no padding.
FormatU8(n) ==
    IF n < 10 THEN Digit(n) ELSE FormatU8(n \div 10) \o Digit(n % 10)

CallName(s) == [kind |-> "CallName", name |-> s]
CallNumber(n) == [kind |-> "CallNumber", num |-> n]

\* Call::to_string of the two implementations.
CallToString(call) ==
    IF call.kind = "CallName" THEN call.name ELSE FormatU8(call.num)

\* Variant of score_to_call: the catch-all arm gives a numeric call instead of None.
score_to_call_NoUpperLimit(score) ==
    CASE score = 0 -> Some(CallName("love"))
      [] score = 1 -> Some(CallNumber(15))
      [] score = 2 -> Some(CallNumber(30))
      [] score = 3 -> Some(CallNumber(40))
      [] score = 4 -> Some(CallName("game"))
      [] OTHER -> Some(CallNumber(score))

\* Variant of score_to_call: love built as a numeric call.
score_to_call_NumericLove(score) ==
    CASE score = 0 -> Some(CallNumber(0))
      [] score = 1 -> Some(CallNumber(15))
      [] score = 2 -> Some(CallNumber(30))
      [] score = 3 -> Some(CallNumber(40))
      [] score = 4 -> Some(CallName("game"))
      [] OTHER -> None

score_to_call(score) ==
    CASE score = 0 -> Some(CallName("love"))
      [] score = 1 -> Some(CallNumber(15))
      [] score = 2 -> Some(CallNumber(30))
      [] score = 3 -> Some(CallNumber(40))
      [] score = 4 -> Some(CallName("game"))
      [] OTHER -> None

----------------------------------------------------------------------------
(* Score: struct Score(u8), a one-field tuple; self.0 is self[1] *)

\* Variant of InvalidScoreMsg: the message names the largest valid count, not
\* the argument.
InvalidScoreMsg_NotTheArgument(score) == "Score " \o FormatU8(4) \o " is not a valid tennis score"

InvalidScoreMsg(score) == "Score " \o FormatU8(score) \o " is not a valid tennis score"

\* Score::new
ScoreNew(score) ==
    LET call == score_to_call(score)
    IN  IF call.some THEN Ok(<<score>>) ELSE Err(InvalidScoreMsg(score))

\* Variant of ScoreAdd: the count saturates at 4 instead of being rejected.
ScoreAdd_Saturating(self, point) ==
    Value(ScoreNew(IF self[1] + 1 > 4 THEN 4 ELSE self[1] + 1))

\* Variant of ScoreAdd: the increment is taken from the point (player.id as u8).
ScoreAdd_ByPlayer(self, point) ==
    Value(ScoreNew(self[1] + (IF point.player.id THEN 1 ELSE 0)))

\* self.0 + 1 on u8: past U8Max it panics with overflow checks and wraps without.
\* Score::add never reads `point`.
ScoreAdd(self, point) ==
    LET sum == self[1] + 1
    IN  IF sum > U8Max
        THEN IF overflow_checks
             THEN Panic(OverflowMsg)
             ELSE Value(ScoreNew(sum % (U8Max + 1)))
        ELSE Value(ScoreNew(sum))

\* impl Display for Call
CallDisplay(call) == CallToString(call)

\* impl Display for Score
ScoreDisplay(self) ==
    LET call == score_to_call(self[1])
    IN  IF call.some THEN Value(CallDisplay(call.val)) ELSE Panic(UnwrapNoneMsg)

----------------------------------------------------------------------------
(* GameScore: struct GameScore { scores: HashMap<&Player, Score> } *)

\* HashMap::new(), HashMap::get, HashMap::insert
EmptyMap == [k \in {} |-> <<0>>]
MapGet(m, k) == IF k \in DOMAIN m THEN Some(m[k]) ELSE None
MapInsert(m, k, v) == [x \in DOMAIN m \cup {k} |-> IF x = k THEN v ELSE m[x]]

\* Variant of GameScoreNew: both inserts use player_1().
GameScoreNew_SameKeyTwice ==
    Value([scores |-> MapInsert(MapInsert(EmptyMap, player_1, <<0>>), player_1, <<0>>)])

\* GameScore::new
GameScoreNew ==
    LET game0 == [scores |-> EmptyMap]
        s1 == ScoreNew(0)
    IN  IF ~s1.ok THEN Panic(UnwrapErrMsg(s1.err)) ELSE
        LET game1 == [game0 EXCEPT !.scores = MapInsert(@, player_1, s1.val)]
            s2 == ScoreNew(0)
        IN  IF ~s2.ok THEN Panic(UnwrapErrMsg(s2.err)) ELSE
            Value([game1 EXCEPT !.scores = MapInsert(@, player_2, s2.val)])

\* Variant of Scored: the new score is inserted into the fresh game's map, so the
\* other player's score is not carried over.
Scored_FreshScores(self, point) ==
    LET fresh == GameScoreNew
        got == MapGet(self.scores, point.player)
    IN  IF fresh.kind = "panic" THEN fresh ELSE
        IF ~got.some THEN Panic(UnwrapNoneMsg) ELSE
        LET added == ScoreAdd(got.val, point)
        IN  IF added.kind = "panic" THEN added ELSE
            IF ~added.val.ok THEN Panic(UnwrapErrMsg(added.val.err)) ELSE
            Value([fresh.val EXCEPT
                     !.scores = MapInsert(@, point.player, added.val.val)])

\* Variant of Scored: new_scores starts empty instead of as a copy of old_scores.
Scored_OnlyScorer(self, point) ==
    LET got == MapGet(self.scores, point.player)
    IN  IF ~got.some THEN Panic(UnwrapNoneMsg) ELSE
        LET added == ScoreAdd(got.val, point)
        IN  IF added.kind = "panic" THEN added ELSE
            IF ~added.val.ok THEN Panic(UnwrapErrMsg(added.val.err)) ELSE
            Value([scores |-> MapInsert(EmptyMap, point.player, added.val.val)])

\* Variant of Scored: once either player is at game, no further point is accepted.
Scored_GameOver(self, point) ==
    LET got == MapGet(self.scores, point.player)
    IN  IF ~got.some THEN Panic(UnwrapNoneMsg) ELSE
        IF \E k \in DOMAIN self.scores : self.scores[k][1] >= 4
        THEN Panic(UnwrapErrMsg(InvalidScoreMsg(5))) ELSE
        LET added == ScoreAdd(got.val, point)
        IN  IF added.kind = "panic" THEN added ELSE
            IF ~added.val.ok THEN Panic(UnwrapErrMsg(added.val.err)) ELSE
            Value([scores |-> MapInsert(self.scores, point.player, added.val.val)])

\* GameScore::scored
Scored(self, point) ==
    LET fresh == GameScoreNew
    IN  IF fresh.kind = "panic" THEN fresh ELSE
        LET old_scores == self.scores
            new_scores == [k \in DOMAIN old_scores |-> old_scores[k]]
            scoring_player == point.player
            got == MapGet(old_scores, scoring_player)
        IN  IF ~got.some THEN Panic(UnwrapNoneMsg) ELSE
            LET added == ScoreAdd(got.val, point)
            IN  IF added.kind = "panic" THEN added ELSE
                IF ~added.val.ok THEN Panic(UnwrapErrMsg(added.val.err)) ELSE
                Value([fresh.val EXCEPT
                         !.scores = MapInsert(new_scores, scoring_player, added.val.val)])

\* Variant of GameScoreDisplay: the two arguments of write! are swapped.
GameScoreDisplay_Swapped(self) ==
    LET g1 == MapGet(self.scores, player_2)
        g2 == MapGet(self.scores, player_1)
    IN  IF ~g1.some \/ ~g2.some THEN Panic(UnwrapNoneMsg) ELSE
        LET d1 == ScoreDisplay(g1.val)
            d2 == ScoreDisplay(g2.val)
        IN  IF d1.kind = "panic" THEN d1 ELSE
            IF d2.kind = "panic" THEN d2 ELSE Value(d1.val \o "-" \o d2.val)

\* impl Display for GameScore: both lookups are unwrapped, then "{}-{}" is written.
GameScoreDisplay(self) ==
    LET g1 == MapGet(self.scores, player_1)
        g2 == MapGet(self.scores, player_2)
    IN  IF ~g1.some \/ ~g2.some THEN Panic(UnwrapNoneMsg) ELSE
        LET d1 == ScoreDisplay(g1.val)
        IN  IF d1.kind = "panic" THEN d1 ELSE
            LET d2 == ScoreDisplay(g2.val)
            IN  IF d2.kind = "panic" THEN d2 ELSE Value(d1.val \o "-" \o d2.val)

----------------------------------------------------------------------------
(* score_game as a function of its argument *)

RECURSIVE ScoreGameLoop(_, _, _)
\* the `for point in points` loop from position i on, then game.to_string()
ScoreGameLoop(g, pts, i) ==
    IF i > Len(pts) THEN GameScoreDisplay(g) ELSE
    LET r == Scored(g, pts[i])
    IN  IF r.kind = "panic" THEN r ELSE ScoreGameLoop(r.val, pts, i + 1)

score_game(pts) ==
    LET g0 == GameScoreNew
    IN  IF g0.kind = "panic" THEN g0 ELSE ScoreGameLoop(g0.val, pts, 1)

----------------------------------------------------------------------------
(* Spec: one call of score_game *)

Inputs == UNION {[1..n -> Point] : n \in 0..MaxPoints}

\* `game` before line 137 has run
NoGame == [scores |-> EmptyMap]

SnapIdle ==
    /\ snap = NoGame
    /\ snap_was = NoGame
    /\ res_a = NoneYet
    /\ res_b = NoneYet
    /\ s_pc = "idle"

ScoreIdle ==
    /\ t_arg = 0
    /\ t_new = NoneYet
    /\ t_recv = None
    /\ t_add = NoneYet
    /\ t_shown = NoneYet
    /\ t_pc = "idle"

Init ==
    /\ overflow_checks \in BOOLEAN
    /\ points \in Inputs
    /\ idx = 1
    /\ game = NoGame
    /\ pc = "start"
    /\ outcome = NoneYet
    /\ ScoreIdle
    /\ SnapIdle

\* let mut game = GameScore::new();
NewGame ==
    /\ pc = "start"
    /\ LET r == GameScoreNew
       IN  IF r.kind = "panic"
           THEN /\ pc' = "panicked"
                /\ outcome' = r
                /\ game' = game
           ELSE /\ pc' = "loop"
                /\ game' = r.val
                /\ outcome' = outcome
    /\ UNCHANGED <<overflow_checks, points, idx, scoreVars, snapVars>>

\* Variant of LoopBody: a failed scored is dropped and the loop goes on
\* (if let Ok(g) = ... { game = g }).
LoopBody_SkipFailed ==
    /\ pc = "loop"
    /\ idx <= Len(points)
    /\ idx' = idx + 1
    /\ LET r == Scored(game, points[idx])
       IN  game' = IF r.kind = "panic" THEN game ELSE r.val
    /\ UNCHANGED <<overflow_checks, points, pc, outcome, scoreVars, snapVars>>

\* Variant of LoopBody: the iterator is not advanced after a successful scored,
\* so the same point is yielded again.
LoopBody_SamePointAgain ==
    /\ pc = "loop"
    /\ idx <= Len(points)
    /\ LET r == Scored(game, points[idx])
       IN  IF r.kind = "panic"
           THEN /\ pc' = "panicked"
                /\ outcome' = r
                /\ game' = game
                /\ idx' = idx + 1
           ELSE /\ pc' = "loop"
                /\ game' = r.val
                /\ outcome' = outcome
                /\ idx' = idx
    /\ UNCHANGED <<overflow_checks, points, scoreVars, snapVars>>

\* one iteration: the iterator yields points[idx]; game = game.scored(point)
LoopBody ==
    /\ pc = "loop"
    /\ idx <= Len(points)
    /\ idx' = idx + 1
    /\ LET r == Scored(game, points[idx])
       IN  IF r.kind = "panic"
           THEN /\ pc' = "panicked"
                /\ outcome' = r
                /\ game' = game
           ELSE /\ pc' = "loop"
                /\ game' = r.val
                /\ outcome' = outcome
    /\ UNCHANGED <<overflow_checks, points, scoreVars, snapVars>>

\* return game.to_string();
Return ==
    /\ pc = "loop"
    /\ idx > Len(points)
    /\ LET r == GameScoreDisplay(game)
       IN  /\ outcome' = r
           /\ pc' = IF r.kind = "panic" THEN "panicked" ELSE "returned"
    /\ UNCHANGED <<overflow_checks, points, idx, game, scoreVars, snapVars>>

Next == NewGame \/ LoopBody \/ Return

Spec == Init /\ [][Next]_vars

\* score_game is sequential code on one thread: while a statement is left to
\* run, it runs.
FairSpec == Spec /\ WF_vars(Next)

----------------------------------------------------------------------------
(* SpecScore: Score::new, Score::add and Display on one count *)

GameIdle ==
    /\ points = <<>>
    /\ idx = 1
    /\ game = NoGame
    /\ pc = "idle"
    /\ outcome = NoneYet

InitScore ==
    /\ overflow_checks \in BOOLEAN
    /\ t_arg \in 0..U8Max
    /\ t_new = NoneYet
    /\ t_recv = None
    /\ t_add = NoneYet
    /\ t_shown = NoneYet
    /\ t_pc = "init"
    /\ GameIdle
    /\ SnapIdle

\* Score::new(t_arg), unwrapped when it is Ok
TestNew ==
    /\ t_pc = "init"
    /\ LET r == ScoreNew(t_arg)
       IN  /\ t_new' = Value(r)
           /\ t_recv' = IF r.ok THEN Some(r.val) ELSE None
           /\ t_pc' = IF r.ok THEN "have" ELSE "failed"
    /\ UNCHANGED <<overflow_checks, t_arg, t_add, t_shown, gameVars, snapVars>>

\* format!("{}", score)
TestDisplay ==
    /\ t_pc = "have"
    /\ t_shown.kind = "none"
    /\ t_shown' = ScoreDisplay(t_recv.val)
    /\ UNCHANGED <<overflow_checks, t_arg, t_new, t_recv, t_add, t_pc, gameVars, snapVars>>

\* score.add(Point { player })
TestAdd ==
    /\ t_pc = "have"
    /\ t_add.kind = "none"
    /\ \E player \in Player : t_add' = ScoreAdd(t_recv.val, PointNew(player))
    /\ UNCHANGED <<overflow_checks, t_arg, t_new, t_recv, t_shown, t_pc, gameVars, snapVars>>

\* the Score that add returned becomes the receiver of the next calls
TestRebind ==
    /\ t_pc = "have"
    /\ t_add.kind = "value"
    /\ t_add.val.ok
    /\ t_recv' = Some(t_add.val.val)
    /\ t_add' = NoneYet
    /\ t_shown' = NoneYet
    /\ UNCHANGED <<overflow_checks, t_arg, t_new, t_pc, gameVars, snapVars>>

NextScore == TestNew \/ TestDisplay \/ TestAdd \/ TestRebind

SpecScore == InitScore /\ [][NextScore]_vars

----------------------------------------------------------------------------
(* SpecSnap: a caller that keeps a GameScore and calls scored on it twice *)

\* Variant of ScoredReceiver: new_scores is the receiver's own map, so the insert
\* of line 82 lands in self.scores.
ScoredReceiver_SharedMap(self, point) ==
    LET r == Scored(self, point)
    IN  IF r.kind = "value" THEN [self EXCEPT !.scores = r.val.scores] ELSE self

\* The receiver after self.scored(point): scored takes &self, reads self.scores
\* through old_scores (l.76) and inserts only into new_scores, a collected copy
\* (l.77-78, l.82), and into the fresh `game` (l.84).
ScoredReceiver(self, point) == self

\* One call self.scored(point): what it returns and what it leaves in the receiver.
ScoredCall(self, point) ==
    [ret |-> Scored(self, point), receiver |-> ScoredReceiver(self, point)]

Called(point, out) == [kind |-> "called", point |-> point, out |-> out]

InitSnap ==
    /\ overflow_checks \in BOOLEAN
    /\ snap = NoGame
    /\ snap_was = NoGame
    /\ res_a = NoneYet
    /\ res_b = NoneYet
    /\ s_pc = "init"
    /\ GameIdle
    /\ ScoreIdle

\* let snap = GameScore::new();
SnapNew ==
    /\ s_pc = "init"
    /\ GameScoreNew.kind = "value"
    /\ snap' = GameScoreNew.val
    /\ snap_was' = GameScoreNew.val
    /\ s_pc' = "held"
    /\ UNCHANGED <<overflow_checks, res_a, res_b, gameVars, scoreVars>>

\* let a = snap.scored(point);
SnapScoredA ==
    /\ s_pc = "held"
    /\ res_a.kind = "none"
    /\ \E point \in Point :
          LET call == ScoredCall(snap, point)
          IN  /\ res_a' = Called(point, call.ret)
              /\ snap' = call.receiver
    /\ UNCHANGED <<overflow_checks, snap_was, res_b, s_pc, gameVars, scoreVars>>

\* let b = snap.scored(point);
SnapScoredB ==
    /\ s_pc = "held"
    /\ res_b.kind = "none"
    /\ \E point \in Point :
          LET call == ScoredCall(snap, point)
          IN  /\ res_b' = Called(point, call.ret)
              /\ snap' = call.receiver
    /\ UNCHANGED <<overflow_checks, snap_was, res_a, s_pc, gameVars, scoreVars>>

\* the caller goes on with one of the results: let snap = a; (or b)
SnapRebind ==
    /\ s_pc = "held"
    /\ \E r \in {res_a, res_b} :
          /\ r.kind = "called"
          /\ r.out.kind = "value"
          /\ snap' = r.out.val
          /\ snap_was' = r.out.val
    /\ res_a' = NoneYet
    /\ res_b' = NoneYet
    /\ UNCHANGED <<overflow_checks, s_pc, gameVars, scoreVars>>

NextSnap == SnapNew \/ SnapScoredA \/ SnapScoredB \/ SnapRebind

SpecSnap == InitSnap /\ [][NextSnap]_vars

----------------------------------------------------------------------------
(* Properties *)

\* The table of calls as the specification states it.
CallTable == <<"love", "15", "30", "40", "game">>

\* Points won by `player` in `pts`.
CountWon(player, pts) == Cardinality({i \in 1..Len(pts) : pts[i].player = player})

WonByOne == CountWon(player_1, points)
WonByTwo == CountWon(player_2, points)

Terminated == pc \in {"returned", "panicked"}

\* The orderings of the same points.
Orderings(pts) ==
    {q \in [1..Len(pts) -> Point] :
        \A player \in Player : CountWon(player, q) = CountWon(player, pts)}

\* C1: when player_one wins a <= 4 and player_two b <= 4 points, score_game
\* returns call(a) "-" call(b), player_one's call on the left.
C1_ScoreIsCallPair ==
    (Terminated /\ WonByOne <= 4 /\ WonByTwo <= 4)
        => /\ pc = "returned"
           /\ outcome = Value(CallTable[WonByOne + 1] \o "-" \o CallTable[WonByTwo + 1])

\* C1 witness: a call has returned with player_two leading 40 to 15.
C1_Witness == pc = "returned" /\ WonByOne = 1 /\ WonByTwo = 3

\* A Result::Err carrying the invalid-score message, handed back as a value.
IsInvalidScoreFailure(out) ==
    /\ out.kind = "value"
    /\ out.val \in {Err(InvalidScoreMsg(n)) : n \in 0..U8Max}

\* C2: a fifth point for a player ends score_game with an InvalidScore failure
\* returned as a value, and never with a panic.
C2_FifthPointReturnsFailure ==
    (Terminated /\ (WonByOne > 4 \/ WonByTwo > 4))
        => /\ pc # "panicked"
           /\ IsInvalidScoreFailure(outcome)

\* C3: score_game returns a score string exactly when neither player wins more
\* than 4 points; a fifth point is never clamped or ignored.
C3_StringIffAtMostFour ==
    Terminated
        => ((pc = "returned" /\ outcome.kind = "value")
                <=> (WonByOne <= 4 /\ WonByTwo <= 4))

\* C3 witness: the call ended without a string on a fifth point that is not the
\* last point of the input.
C3_Witness == pc = "panicked" /\ idx <= Len(points) /\ WonByTwo >= 1

FourForPlayerOne == [i \in 1..4 |-> PointNew(player_1)]

\* C4 as stated: four points for player_one give "love-game".
C4_FourPointsLoveGame ==
    (Terminated /\ points = FourForPlayerOne)
        => (pc = "returned" /\ outcome = Value("love-game"))

\* C4 as amended: four points for player_one give "game-love".
C4_FourPointsGameLove ==
    (Terminated /\ points = FourForPlayerOne)
        => (pc = "returned" /\ outcome = Value("game-love"))

\* C4 witness: the call on four player_one points has returned.
C4_Witness == pc = "returned" /\ points = FourForPlayerOne

\* C5: GameScore::new() holds count 0 for both players and renders "love-love";
\* score_game on the empty sequence returns "love-love".
C5_FreshGameLoveLove ==
    /\ (pc = "loop" /\ idx = 1)
          => /\ DOMAIN game.scores = {player_1, player_2}
             /\ game.scores[player_1] = <<0>>
             /\ game.scores[player_2] = <<0>>
             /\ GameScoreDisplay(game) = Value("love-love")
    /\ (Terminated /\ points = <<>>)
          => (pc = "returned" /\ outcome = Value("love-love"))

\* C5 witness: the call on the empty sequence has returned.
C5_Witness == pc = "returned" /\ points = <<>>

\* C6: with at most 4 points per player, every ordering of the same points gives
\* the string this call gave.
C6_OrderIrrelevant ==
    (Terminated /\ WonByOne <= 4 /\ WonByTwo <= 4)
        => /\ outcome.kind = "value"
           /\ \A q \in Orderings(points) : score_game(q) = outcome

\* C6 witness: a returned call whose input has several distinct orderings.
C6_Witness ==
    /\ pc = "returned"
    /\ WonByOne = 2
    /\ WonByTwo = 3
    /\ Cardinality(Orderings(points)) = 10

\* C7: Score::new(c) succeeds for c in 0..4 and the Score displays as the table
\* entry; for every other u8 it fails and there is no Score.
C7_NewValidatesAndDisplays ==
    /\ (t_pc \in {"have", "failed"})
          => /\ t_new.val.ok <=> t_arg \in 0..4
             /\ t_new.val.ok => /\ t_new.val.val = <<t_arg>>
                                /\ ScoreDisplay(t_new.val.val) = Value(CallTable[t_arg + 1])
             /\ ~t_new.val.ok => (t_pc = "failed" /\ ~t_recv.some)
    /\ (t_shown.kind # "none")
          => t_shown = Value(CallTable[t_recv.val[1] + 1])

\* C7 witness: Score::new(0) succeeded and its display was taken.
C7_Witness == t_arg = 0 /\ t_recv = Some(<<0>>) /\ t_shown.kind = "value"

\* C8: add on a Score of count c in 0..3 gives the Score of count c+1, displayed
\* as the next table entry; add on Score(4) is an Err, neither love nor game.
C8_AddAdvancesOrFails ==
    (t_add.kind # "none")
        => LET c == t_recv.val[1]
           IN  /\ c \in 0..4
               /\ t_add.kind = "value"
               /\ (c <= 3) => /\ t_add.val.ok
                              /\ t_add.val.val = <<c + 1>>
                              /\ ScoreDisplay(t_add.val.val) = Value(CallTable[c + 2])
               /\ (c = 4) => ~t_add.val.ok

\* C8 witness: add was called on Score(4).
C8_Witness == t_recv = Some(<<4>>) /\ t_add.kind = "value"

\* C9: every GameScore that score_game holds has one entry per player, both
\* counts in 0..4, and renders without a panic.
C9_GameScoreWellFormed ==
    (pc \in {"loop", "returned", "panicked"})
        => /\ DOMAIN game.scores = {player_1, player_2}
           /\ \A player \in Player : game.scores[player][1] \in 0..4
           /\ GameScoreDisplay(game).kind = "value"

\* C9 witness: both players at game.
C9_Witness ==
    pc = "loop" /\ game.scores = (player_1 :> <<4>> @@ player_2 :> <<4>>)

\* C10: a successful scored(point) raises the scoring player's count by exactly
\* one and leaves the other player's count as it was.
C10_ScoredFrame ==
    [][(pc = "loop" /\ pc' = "loop" /\ idx' = idx + 1)
          => LET scorer == points[idx].player
             IN  /\ game'.scores[scorer] = <<game.scores[scorer][1] + 1>>
                 /\ \A other \in Player \ {scorer} :
                        game'.scores[other] = game.scores[other]]_vars

\* C10 witness: a point was scored while the other player already had points.
C10_Witness ==
    /\ pc = "loop"
    /\ idx > 1
    /\ game.scores[points[idx - 1].player][1] >= 1
    /\ \E other \in Player \ {points[idx - 1].player} : game.scores[other][1] >= 2

C12_NoTerminalState ==
    (s_pc = "held")
        => /\ \A player \in Player : snap_was.scores[player][1] \in 0..4
           /\ \A r \in {res_a, res_b} :
                 (r.kind = "called")
                    => /\ (r.out.kind = "value") <=> (snap_was.scores[r.point.player][1] < 4)
                       /\ (r.out.kind = "value")
                             => r.out.val.scores[r.point.player]
                                    = <<snap_was.scores[r.point.player][1] + 1>>

\* C12 witness: with player_one already at game, a point for player_two was
\* accepted and gave (game, game).
C12_Witness ==
    /\ s_pc = "held"
    /\ snap_was.scores = (player_1 :> <<4>> @@ player_2 :> <<3>>)
    /\ res_a.kind = "called"
    /\ res_a.point = PointNew(player_2)
    /\ res_a.out = Value([scores |-> (player_1 :> <<4>> @@ player_2 :> <<4>>)])

\* Position of the first point that is a fifth point for its player, 0 if none.
FirstFailing(pts) ==
    LET fifth == {i \in 1..Len(pts) :
                     Cardinality({j \in 1..i : pts[j].player = pts[i].player}) = 5}
    IN  IF fifth = {} THEN 0 ELSE CHOOSE i \in fifth : \A j \in fifth : i <= j

\* C13: score_game stops at the first scored that fails: the iterator stands
\* right after the failing point, `game` holds only the points before it, and
\* the outcome is the failure of that point, the same as for the input cut
\* there, whatever points follow.
C13_StopsAtFirstFailure ==
    LET f == FirstFailing(points)
    IN  /\ (pc = "panicked") => (f > 0 /\ idx = f + 1)
        /\ (f > 0 /\ idx > f)
              => /\ pc = "panicked"
                 /\ idx = f + 1
                 /\ outcome.kind = "panic"
                 /\ outcome = score_game(SubSeq(points, 1, f))
                 /\ \A player \in Player :
                       game.scores[player][1] = CountWon(player, SubSeq(points, 1, f - 1))

\* C13 witness: the call failed with at least two points left, the next one a
\* point the other player could still have won.
C13_Witness ==
    /\ pc = "panicked"
    /\ idx + 1 <= Len(points)
    /\ points[idx].player # points[idx - 1].player
    /\ game.scores[points[idx].player][1] < 4

\* C14: Score.add gives the same result for a Point of either player: the new
\* count, or the failure, is decided by the receiver's count alone.
C14_AddIgnoresPoint ==
    (t_add.kind # "none")
        => \A player \in Player : ScoreAdd(t_recv.val, PointNew(player)) = t_add

\* C14 witness: add was called on a Score that earlier adds produced, and succeeded.
C14_Witness ==
    /\ t_arg = 1
    /\ t_recv = Some(<<3>>)
    /\ t_add = Value(Ok(<<4>>))

\* C15: the failure of Score::new(c) carries c, written in decimal in its
\* message; the failure of add on Score(4) carries 5.
C15_FailureCarriesCount ==
    /\ (t_pc = "failed")
          => t_new.val = Err("Score " \o ToString(t_arg) \o " is not a valid tennis score")
    /\ (t_add.kind = "value" /\ ~t_add.val.ok)
          => /\ t_recv = Some(<<4>>)
             /\ t_add.val = Err("Score 5 is not a valid tennis score")

\* C15 witness: Score::new(2), two adds, and then the add on Score(4) that failed.
C15_Witness ==
    /\ t_arg = 2
    /\ t_recv = Some(<<4>>)
    /\ t_add.kind = "value"
    /\ ~t_add.val.ok

\* C15 witness on the side of Score::new: a three-digit count was rejected.
C15_NewRejected == t_pc = "failed" /\ t_arg = 105

\* Sum of the two counts of a GameScore.
TotalCount(g) == g.scores[player_1][1] + g.scores[player_2][1]

\* C16: every point is counted once: after k points were applied successfully
\* the two counts of `game` add up to k; no input of more than 8 points completes.
C16_EveryPointCountedOnce ==
    /\ (pc = "loop") => TotalCount(game) = idx - 1
    /\ (pc = "panicked") => TotalCount(game) = idx - 2
    /\ (pc = "returned") => (TotalCount(game) = Len(points) /\ Len(points) <= 8)
    /\ (Terminated /\ Len(points) > 8) => pc = "panicked"

\* C16 witness: a call on 8 points has returned.
C16_Witness == pc = "returned" /\ Len(points) = 8 /\ TotalCount(game) = 8

\* C17: on every input of n points score_game finishes, with a string or with a
\* failure; it makes at most n scored calls, each on the next point of the input
\* in order, and no point is taken twice.
C17_FinishesWithinInput ==
    /\ <>Terminated
    /\ [](idx <= Len(points) + 1)
    /\ [][(pc # "start" /\ (idx' # idx \/ game' # game))
             => /\ pc = "loop"
                /\ idx <= Len(points)
                /\ idx' = idx + 1
                /\ points' = points
                /\ (pc' = "loop") => Value(game') = Scored(game, points[idx])
                /\ (pc' # "loop") => (pc' = "panicked" /\ game' = game)]_vars

\* C17 witness: a call on the longest input that can complete has finished after
\* taking all of its points.
C17_Witness ==
    /\ Terminated
    /\ Len(points) = 8
    /\ idx = Len(points) + 1
    /\ points[1] = PointNew(player_2)
    /\ points[8] = PointNew(player_1)

\* C18: self.0 + 1 in Score.add never overflows u8 on a Score made by Score::new
\* and add: the receiver's count is at most 4, the sum at most 5, and a sum of 5
\* is rejected by Score::new; no add panics on overflow or wraps to a valid count,
\* in either build profile.
C18_AddNeverOverflows ==
    /\ t_recv.some => t_recv.val[1] <= 4
    /\ (t_add.kind # "none")
          => LET sum == t_recv.val[1] + 1
             IN  /\ sum <= 5
                 /\ sum <= U8Max
                 /\ t_add # Panic(OverflowMsg)
                 /\ t_add.kind = "value"
                 /\ t_add.val.ok => t_add.val.val = <<sum>>
                 /\ (sum = 5) => ~t_add.val.ok

\* C18 witness: in a build with overflow checks, add on Score(4), itself made by
\* add, was rejected by validation.
C18_Witness ==
    /\ overflow_checks
    /\ t_arg = 3
    /\ t_recv = Some(<<4>>)
    /\ t_add = Value(Err(InvalidScoreMsg(5)))

====
